---- MODULE Spec2Model ----
(***************************************************************************)
(* Model of the Assetto Corsa suspension data extractor:                   *)
(*   main.py             SuspensionDataExtractor (circular buffer, loop)   *)
(*   data_logger.py      SuspensionDataLogger    (session recording)       *)
(*   ac_shared_memory.py ACSharedMemory           (shared memory source)   *)
(***************************************************************************)
EXTENDS Integers, Sequences, FiniteSets, TLC

(***************************************************************************)
(* Bounds of the model.                                                    *)
(***************************************************************************)
\* largest buffer capacity (self.buffer_size) explored
MaxCapacity == 3
\* largest number of add_to_buffer calls in the buffer specification
MaxPushes == 6
\* get_latest_data(count) is called with count in -MaxCount .. MaxCount
MaxCount == 4

\* the clock (time.time(), datetime.now()), in whole seconds, runs from 0 to
\* MaxClock
MaxClock == 1
\* most entries a session accumulates in the recorder specification
MaxLog == 2
\* most start_session calls in the recorder specification
MaxSessions == 2
\* most save_realtime calls in the auto-flush specification
MaxRealtimeCalls == 201
\* largest capacity of the buffer in the sampling-loop specification
MaxLoopCapacity == 2
\* most samples the sampling loop accepts in one run
MaxSamples == 3
\* most interrupt signals delivered in one run
MaxSignals == 2
\* most mutations a caller applies to a list returned by get_latest_data
MaxMutations == 1
\* most samples accepted in the long uninterrupted run
MaxLongSamples == 100
\* the clock advances by at most MaxLoopClock seconds while the sampling loop
\* runs
MaxLoopClock == 0
\* save_realtime flushes when len(session_data) % 100 == 0
AutoSaveEvery == 100

\* Python's None, and an optional value holding x
None == <<>>
Some(x) == <<x>>

VARIABLES
  buffer_size,      \* SuspensionDataExtractor.buffer_size
  data_buffer,      \* SuspensionDataExtractor.data_buffer (a Python list)
  buffer_index,     \* SuspensionDataExtractor.buffer_index
  in_flight,        \* add_to_buffer's position: Some(record) when the record is
                    \* written to its slot and buffer_index not yet advanced
  pushed,           \* history: every record handed to add_to_buffer, in order
  query,            \* the last get_latest_data call: its count, the list it
                    \* returned (result) as the caller now holds it, whether
                    \* that list is the object self.data_buffer (is_buffer),
                    \* and how often the caller has mutated it (mutations)
  current_session_file,  \* SuspensionDataLogger.current_session_file
  session_data,          \* SuspensionDataLogger.session_data
  session_start_time,    \* SuspensionDataLogger.session_start_time
  files,            \* the output directory: file name -> persisted document
  clock,            \* the wall clock read by time.time() and datetime.now()
  ret,              \* history: the last recorder call and what it returned
  recorded,         \* history: records logged since the last start_session
  physics_mmap,     \* ACSharedMemory.physics_mmap
  is_connected,     \* ACSharedMemory.is_connected
  running,          \* SuspensionDataExtractor.running
  enable_logging,   \* SuspensionDataExtractor.enable_logging
  pc,               \* where start_extraction is
  suspension_data,  \* start_extraction's local suspension_data
  sample_count,     \* start_extraction's local sample_count
  last_packet_id,   \* start_extraction's local last_packet_id
  accepted,         \* history: the records counted by sample_count, in order
  sig,              \* history: the interrupt signals delivered
  final,            \* history: the outcome of the flush in the finally block
  rt                \* history: sessions started and, for the current session,
                    \* save_realtime calls with a record, whether only such calls
                    \* recorded (pure), flushes they attempted, flushes that failed,
                    \* and the number of entries held when save_session last
                    \* failed (failed_at, 0 when it never did)

bufVars == <<buffer_size, data_buffer, buffer_index, in_flight>>

logVars == <<current_session_file, session_data, session_start_time, files>>

logHist == <<ret, recorded, rt>>

memVars == <<physics_mmap, is_connected>>

extVars == <<physics_mmap, is_connected, running, enable_logging, pc,
             suspension_data, sample_count, last_packet_id, accepted, sig, final>>

vars == <<buffer_size, data_buffer, buffer_index, in_flight, pushed, query,
          current_session_file, session_data, session_start_time, files, clock,
          ret, recorded, rt,
          physics_mmap, is_connected, running, enable_logging, pc,
          suspension_data, sample_count, last_packet_id, accepted, sig, final>>

(***************************************************************************)
(* Python primitives used by the code.                                     *)
(***************************************************************************)
Min(a, b) == IF a <= b THEN a ELSE b
Max(a, b) == IF a >= b THEN a ELSE b

\* s[start:] for a Python list s: a negative start counts from the end, and
\* the start is clamped to 0 .. len(s).
PySliceFrom(s, start) ==
  LET n == Len(s)
      lo == IF start < 0 THEN Max(start + n, 0) ELSE Min(start, n)
  IN SubSeq(s, lo + 1, n)

\* the decoded telemetry record built by read_suspension_data
SuspensionData(ts, travel, speed, pid) ==
  [timestamp |-> ts,
   front_left |-> travel[1], front_right |-> travel[2],
   rear_left |-> travel[3], rear_right |-> travel[4],
   speed_kmh |-> speed, packet_id |-> pid]

(***************************************************************************)
(* SuspensionDataExtractor: the circular buffer.                           *)
(***************************************************************************)
\* add_to_buffer with the cursor advance dropped: a full buffer keeps
\* overwriting the same slot
add_to_buffer_stuck(buf, idx, data) ==
  IF Len(buf) < buffer_size
  THEN [data_buffer |-> Append(buf, data), buffer_index |-> idx]
  ELSE [data_buffer |-> [buf EXCEPT ![idx + 1] = data], buffer_index |-> idx]

\* add_to_buffer(data): the new (data_buffer, buffer_index)
add_to_buffer(buf, idx, data) ==
  IF Len(buf) < buffer_size
  THEN [data_buffer |-> Append(buf, data), buffer_index |-> idx]
  ELSE [data_buffer |-> [buf EXCEPT ![idx + 1] = data],
        buffer_index |-> (idx + 1) % buffer_size]

\* the loop "for i in range(count): latest_data.insert(0, data_buffer[idx])"
RECURSIVE LatestLoop(_, _, _, _, _)
LatestLoop(buf, idx, count, i, latest_data) ==
  IF i >= count THEN latest_data
  ELSE LET k == (idx - 1 - i) % buffer_size
       IN LatestLoop(buf, idx, count, i + 1,
                     IF k >= 0 THEN <<buf[k + 1]>> \o latest_data
                     ELSE latest_data)

\* get_latest_data(count): the returned list
get_latest_data(buf, idx, count) ==
  IF buf = <<>> THEN <<>>
  ELSE IF Len(buf) < buffer_size
       THEN IF Len(buf) >= count THEN PySliceFrom(buf, -count) ELSE buf
       ELSE LatestLoop(buf, idx, count, 0, <<>>)

\* get_latest_data(count): whether the returned list is self.data_buffer
\* itself (line 95, "else self.data_buffer") and not a new list
returns_buffer(buf, count) ==
  buf # <<>> /\ Len(buf) < buffer_size /\ ~(Len(buf) >= count)

\* SuspensionDataExtractor.__init__: the buffer starts empty
InitBufferFields ==
  /\ data_buffer = <<>>
  /\ buffer_index = 0
  /\ in_flight = None
  /\ pushed = <<>>
  /\ query = None

(***************************************************************************)
(* SuspensionDataLogger.                                                   *)
(***************************************************************************)
\* dict.get(key, default)
PyGet(d, key, default) == IF key \in DOMAIN d THEN d[key] ELSE default

\* datetime.isoformat(): the text of the instant t
IsoFormat(t) == <<"iso", t>>

\* os.path.join(output_dir, "suspension_data_" + strftime("%Y%m%d_%H%M%S") +
\* ".json"): the name is the start time to the second
SessionFileName(t) == <<"data", "suspension_data", t>>

FileNames == {SessionFileName(t) : t \in 0..MaxClock}

\* a file that does not exist, and a file truncated by open(..., 'w') whose
\* json.dump did not complete
AbsentFile == [state |-> "absent"]
PartialFile == [state |-> "partial"]

\* the recorder's fields as one value
Logger == [current_session_file |-> current_session_file,
           session_data |-> session_data,
           session_start_time |-> session_start_time]

\* start_session() at time now: the recorder's new fields
start_session(L, now) ==
  [current_session_file |-> Some(SessionFileName(now)),
   session_data |-> <<>>,
   session_start_time |-> Some(now)]

\* the data_entry dict built by log_data
DataEntry(d) ==
  [timestamp |-> d.timestamp,
   readable_time |-> IsoFormat(d.timestamp),
   suspension |-> [front_left |-> d.front_left, front_right |-> d.front_right,
                   rear_left |-> d.rear_left, rear_right |-> d.rear_right],
   context |-> [speed_kmh |-> PyGet(d, "speed_kmh", 0),
                packet_id |-> PyGet(d, "packet_id", 0)]]

\* log_data with insert(0, entry) in place of append(entry)
log_data_prepend(L, data) ==
  IF data = None THEN [logger |-> L, value |-> "False"]
  ELSE [logger |-> [L EXCEPT !.session_data = <<DataEntry(data[1])>> \o @],
        value |-> "True"]

\* log_data(suspension_data): the recorder's new fields and the return value;
\* data is None or Some(record)
log_data(L, data) ==
  IF data = None THEN [logger |-> L, value |-> "False"]
  ELSE [logger |-> [L EXCEPT !.session_data = Append(@, DataEntry(data[1]))],
        value |-> "True"]

\* the session_info document written by save_session
SessionInfo(L, now) ==
  [state |-> "written",
   session_metadata |->
     [start_time |-> IsoFormat(L.session_start_time[1]),
      end_time |-> IsoFormat(now),
      total_samples |-> Len(L.session_data),
      duration_seconds |-> now - L.session_start_time[1],
      file_version |-> "1.0"],
   data |-> L.session_data]

\* save_session whose exception handler returns True
save_session_swallows(L, F, now, io) ==
  IF L.session_data = <<>> \/ L.current_session_file = None
  THEN [files |-> F, value |-> "False", saved |-> "refused"]
  ELSE LET name == L.current_session_file[1]
       IN CASE io = "ok" ->
                 [files |-> [F EXCEPT ![name] = SessionInfo(L, now)],
                  value |-> "True", saved |-> "ok"]
            [] io = "open_fails" ->
                 [files |-> F, value |-> "True", saved |-> "failed"]
            [] OTHER ->
                 [files |-> [F EXCEPT ![name] = PartialFile],
                  value |-> "True", saved |-> "failed"]

\* save_session() at time now: the new directory contents and the return
\* value.  io is the outcome of the file I/O: "ok"; "open_fails" (open raises,
\* the file is untouched); "write_fails" (open truncated the file, json.dump
\* raises).  saved tells whether a write was attempted and how it ended.
save_session(L, F, now, io) ==
  IF L.session_data = <<>> \/ L.current_session_file = None
  THEN [files |-> F, value |-> "False", saved |-> "refused"]
  ELSE LET name == L.current_session_file[1]
       IN CASE io = "ok" ->
                 [files |-> [F EXCEPT ![name] = SessionInfo(L, now)],
                  value |-> "True", saved |-> "ok"]
            [] io = "open_fails" ->
                 [files |-> F, value |-> "False", saved |-> "failed"]
            [] OTHER ->
                 [files |-> [F EXCEPT ![name] = PartialFile],
                  value |-> "False", saved |-> "failed"]

\* save_realtime testing the length before the entry is appended
save_realtime_early(L, F, data, now, io) ==
  LET L1 == IF L.current_session_file = None THEN start_session(L, now) ELSE L
      r == log_data(L1, data)
  IN IF r.value = "True" /\ Len(L1.session_data) % AutoSaveEvery = 0
     THEN LET w == save_session(r.logger, F, now, io)
          IN [logger |-> r.logger, files |-> w.files, saved |-> w.saved]
     ELSE [logger |-> r.logger, files |-> F, saved |-> "none"]

\* save_realtime(suspension_data) at time now
save_realtime(L, F, data, now, io) ==
  LET L1 == IF L.current_session_file = None THEN start_session(L, now) ELSE L
      r == log_data(L1, data)
  IN IF r.value = "True" /\ Len(r.logger.session_data) % AutoSaveEvery = 0
     THEN LET w == save_session(r.logger, F, now, io)
          IN [logger |-> r.logger, files |-> w.files, saved |-> w.saved]
     ELSE [logger |-> r.logger, files |-> F, saved |-> "none"]

\* get_session_stats() at time now: None or the stats dict
get_session_stats(L, now) ==
  IF L.session_data = <<>> THEN None
  ELSE Some([total_samples |-> Len(L.session_data),
             duration |-> IF L.session_start_time # None
                          THEN now - L.session_start_time[1] ELSE 0,
             file_path |-> L.current_session_file,
             start_time |-> IF L.session_start_time # None
                            THEN Some(IsoFormat(L.session_start_time[1]))
                            ELSE None])

IoOutcomes == {"ok", "open_fails", "write_fails"}

\* SuspensionDataLogger.__init__
InitLogger ==
  /\ current_session_file = None
  /\ session_data = <<>>
  /\ session_start_time = None
  /\ files = [n \in FileNames |-> AbsentFile]
  /\ clock = 0
  /\ ret = None
  /\ recorded = <<>>
  /\ rt = [calls |-> 0, pure |-> TRUE, flushes |-> 0, failed |-> 0,
           sessions |-> 0, failed_at |-> 0]

SetLogger(L) ==
  /\ current_session_file' = L.current_session_file
  /\ session_data' = L.session_data
  /\ session_start_time' = L.session_start_time

FreshRt == [rt EXCEPT !.calls = 0, !.pure = TRUE, !.flushes = 0, !.failed = 0,
                      !.sessions = @ + 1, !.failed_at = 0]

StartSession ==
  /\ SetLogger(start_session(Logger, clock))
  /\ ret' = Some([op |-> "start_session", data |-> None,
                  value |-> "path", saved |-> "none"])
  /\ recorded' = <<>>
  /\ rt' = FreshRt
  /\ UNCHANGED <<files, clock, bufVars, pushed, query, extVars>>

LogData(data) ==
  /\ LET r == log_data(Logger, data)
     IN /\ SetLogger(r.logger)
        /\ ret' = Some([op |-> "log_data", data |-> data,
                        value |-> r.value, saved |-> "none"])
  /\ recorded' = IF data = None THEN recorded ELSE Append(recorded, data[1])
  /\ rt' = [rt EXCEPT !.pure = FALSE]
  /\ UNCHANGED <<files, clock, bufVars, pushed, query, extVars>>

SaveSession(io) ==
  /\ LET w == save_session(Logger, files, clock, io)
     IN /\ files' = w.files
        /\ ret' = Some([op |-> "save_session", data |-> None,
                        value |-> w.value, saved |-> w.saved])
        /\ rt' = [rt EXCEPT !.failed_at = IF w.saved = "failed"
                                          THEN Len(session_data) ELSE @]
  /\ UNCHANGED <<current_session_file, session_data, session_start_time>>
  /\ UNCHANGED <<clock, recorded, bufVars, pushed, query, extVars>>

SaveRealtime(data, io) ==
  /\ LET r == save_realtime(Logger, files, data, clock, io)
         started == current_session_file = None
         base == IF started THEN FreshRt ELSE rt
     IN /\ SetLogger(r.logger)
        /\ files' = r.files
        /\ ret' = Some([op |-> "save_realtime", data |-> data,
                        value |-> "None", saved |-> r.saved])
        /\ recorded' = IF data = None
                       THEN (IF started THEN <<>> ELSE recorded)
                       ELSE Append(IF started THEN <<>> ELSE recorded, data[1])
        /\ rt' = [calls |-> base.calls + (IF data = None THEN 0 ELSE 1),
                  pure |-> base.pure,
                  flushes |-> base.flushes
                              + (IF r.saved \in {"ok", "failed"} THEN 1 ELSE 0),
                  failed |-> base.failed
                             + (IF r.saved = "failed" THEN 1 ELSE 0),
                  sessions |-> base.sessions,
                  failed_at |-> base.failed_at]
  /\ UNCHANGED <<clock, bufVars, pushed, query, extVars>>

GetSessionStats ==
  /\ LET st == get_session_stats(Logger, clock)
     IN ret' = Some([op |-> "get_session_stats", data |-> st,
                     value |-> IF st = None THEN "None" ELSE "stats",
                     saved |-> "none"])
  /\ UNCHANGED <<logVars, clock, recorded, rt, bufVars, pushed, query, extVars>>

AdvanceClock ==
  /\ clock < MaxClock
  /\ clock' = clock + 1
  /\ ret' = None
  /\ UNCHANGED <<logVars, recorded, rt, bufVars, pushed, query, extVars>>

\* records handed to the recorder: a full record, and one without the
\* optional keys speed_kmh and packet_id
LoggerRecords ==
  {SuspensionData(0, <<45, 43, 38, 40>>, 120, 7),
   [timestamp |-> 1, front_left |-> 1, front_right |-> 2,
    rear_left |-> 3, rear_right |-> 4]}

LoggerInputs == {None} \cup {Some(d) : d \in LoggerRecords}

(***************************************************************************)
(* ACSharedMemory.                                                         *)
(***************************************************************************)
\* c_int32 read from the four bytes of packetId, given as the high and the
\* low 16 bits of the pattern: two's complement
Int32(hi, lo) ==
  IF hi >= 32768 THEN (hi - 65536) * 65536 + lo ELSE hi * 65536 + lo

\* the mapping object held while the region is mapped
Mapping == Some("acpmf_physics")

\* ACSharedMemory.__init__
InitMemory ==
  /\ physics_mmap = None
  /\ is_connected = FALSE

\* disconnect() that does nothing unless is_connected is set
disconnect_when_connected(mmap, connected) ==
  IF connected THEN [physics_mmap |-> None, is_connected |-> FALSE]
  ELSE [physics_mmap |-> mmap, is_connected |-> connected]

\* disconnect(): the new (physics_mmap, is_connected)
disconnect(mmap, connected) ==
  [physics_mmap |-> None, is_connected |-> FALSE]

\* read_suspension_data() at time now when the region holds frame; io_fails
\* says that seek/read/from_buffer_copy raises.  None or Some(record).
read_suspension_data(mmap, connected, frame, now, io_fails) ==
  IF ~connected \/ mmap = None THEN None
  ELSE IF io_fails THEN None
  ELSE Some(SuspensionData(now, frame.suspensionTravel, frame.speedKmh,
                           Int32(frame.packetId[1], frame.packetId[2])))

\* is_ac_running()
is_ac_running(mmap, connected, frame, now, io_fails) ==
  LET data == read_suspension_data(mmap, connected, frame, now, io_fails)
  IN IF data = None THEN FALSE
     ELSE PyGet(data[1], "packet_id", 0) > 0

(***************************************************************************)
(* SuspensionDataExtractor: start_extraction, stop and the signal handler. *)
(* pc is the place start_extraction has reached:                           *)
(*   idle           start_extraction not yet called                        *)
(*   connect        connect_to_ac: about to map the region (connect)       *)
(*   connect_flag   region mapped, is_connected not yet set                *)
(*   is_ac_running  connected, about to test that frames arrive            *)
(*   begin          connect_to_ac returned True (lines 110-116)            *)
(*   set_running    about to set running and the counters (lines 118-125)  *)
(*   loop_test      the test of "while self.running"                       *)
(*   read, process, log, count, timing    one tick of the loop             *)
(*   finally        the finally block, about to call stop()                *)
(*   done           start_extraction has returned                          *)
(* The signal handler runs between any two of these steps, in the same     *)
(* thread, and its stop() runs to the end before start_extraction resumes. *)
(***************************************************************************)
Connecting == {"connect", "connect_flag", "is_ac_running", "begin", "set_running"}
Sampling == {"loop_test", "read", "process", "log", "count", "timing"}

\* the contents the producer may leave in the region: the packetId pattern is
\* given as its high and low 16 bits (0, 1, 2 and 0x80000000)
PacketPatterns == {<<0, 0>>, <<0, 1>>, <<0, 2>>, <<32768, 0>>}

Frames ==
  {[packetId |-> p, suspensionTravel |-> <<45, 43, 38, 40>>, speedKmh |-> 120] :
     p \in PacketPatterns}

\* SuspensionDataExtractor.__init__, before start_extraction is called
InitExtractor ==
  /\ running = FALSE
  /\ pc = "idle"
  /\ suspension_data = None
  /\ sample_count = 0
  /\ last_packet_id = 0
  /\ accepted = <<>>
  /\ sig = [count |-> 0, connecting |-> FALSE, sampling |-> FALSE, entries |-> 0]
  /\ final = "none"

\* the test of line 138: the frame is new
is_new_packet(current_packet_id, last) ==
  current_packet_id # last /\ current_packet_id > 0

\* whether the frame just read will be accepted by this tick
Accepts(data, last) ==
  data # None /\ is_new_packet(PyGet(data[1], "packet_id", 0), last)

\* what the flush inside stop() does: "none" when stop() skips it
StopSaved(io) ==
  IF enable_logging /\ session_data # <<>>
  THEN save_session(Logger, files, clock, io).saved
  ELSE "none"

\* stop() that returns at once when the extractor is not running
stop_guarded(io) ==
  IF ~running
  THEN UNCHANGED <<running, files, physics_mmap, is_connected>>
  ELSE /\ running' = FALSE
       /\ files' = IF enable_logging /\ session_data # <<>>
                   THEN save_session(Logger, files, clock, io).files
                   ELSE files
       /\ physics_mmap' = None
       /\ is_connected' = FALSE

\* stop() that leaves self.running as it is
stop_keeps_running(io) ==
  /\ UNCHANGED running
  /\ files' = IF enable_logging /\ session_data # <<>>
              THEN save_session(Logger, files, clock, io).files
              ELSE files
  /\ physics_mmap' = None
  /\ is_connected' = FALSE

\* stop(): clears running, flushes the session when logging is enabled and
\* entries exist, disconnects
stop(io) ==
  /\ running' = FALSE
  /\ files' = IF enable_logging /\ session_data # <<>>
              THEN save_session(Logger, files, clock, io).files
              ELSE files
  /\ LET m == disconnect(physics_mmap, is_connected)
     IN /\ physics_mmap' = m.physics_mmap
        /\ is_connected' = m.is_connected

\* signal_handler(signum, frame): delivered between two steps of the run
SignalHandler(io) ==
  /\ pc # "done"
  /\ sig.count < MaxSignals
  /\ stop(io)
  /\ sig' = [count |-> sig.count + 1,
             connecting |-> sig.connecting \/ pc \in Connecting,
             sampling |-> sig.sampling \/ pc \in Sampling,
             entries |-> Len(session_data)]
  /\ UNCHANGED <<bufVars, pushed, query, current_session_file, session_data,
                 session_start_time, clock, logHist, enable_logging, pc,
                 suspension_data, sample_count, last_packet_id, accepted, final>>

\* main() calls start_extraction()
StartExtraction ==
  /\ pc = "idle"
  /\ pc' = "connect"
  /\ UNCHANGED <<bufVars, pushed, query, logVars, clock, logHist, memVars,
                 running, enable_logging, suspension_data, sample_count,
                 last_packet_id, accepted, sig, final>>

\* connect(), the mmap.mmap call: on failure connect_to_ac and
\* start_extraction return False
Connect(ok) ==
  /\ pc = "connect"
  /\ IF ok
     THEN /\ physics_mmap' = Mapping
          /\ UNCHANGED is_connected
          /\ pc' = "connect_flag"
     ELSE /\ is_connected' = FALSE
          /\ UNCHANGED physics_mmap
          /\ pc' = "done"
  /\ UNCHANGED <<bufVars, pushed, query, logVars, clock, logHist,
                 running, enable_logging, suspension_data, sample_count,
                 last_packet_id, accepted, sig, final>>

\* connect(): self.is_connected = True
ConnectFlag ==
  /\ pc = "connect_flag"
  /\ is_connected' = TRUE
  /\ pc' = "is_ac_running"
  /\ UNCHANGED <<bufVars, pushed, query, logVars, clock, logHist, physics_mmap,
                 running, enable_logging, suspension_data, sample_count,
                 last_packet_id, accepted, sig, final>>

\* connect_to_ac: the is_ac_running() test; start_extraction returns False
\* when it fails
IsAcRunning(frame, io_fails) ==
  /\ pc = "is_ac_running"
  /\ pc' = IF is_ac_running(physics_mmap, is_connected, frame, clock, io_fails)
           THEN "begin" ELSE "done"
  /\ UNCHANGED <<bufVars, pushed, query, logVars, clock, logHist, memVars,
                 running, enable_logging, suspension_data, sample_count,
                 last_packet_id, accepted, sig, final>>

\* lines 110-116: start the logging session when logging is enabled
Begin ==
  /\ pc = "begin"
  /\ IF enable_logging
     THEN SetLogger(start_session(Logger, clock))
     ELSE UNCHANGED <<current_session_file, session_data, session_start_time>>
  /\ pc' = "set_running"
  /\ UNCHANGED <<bufVars, pushed, query, files, clock, logHist, memVars,
                 running, enable_logging, suspension_data, sample_count,
                 last_packet_id, accepted, sig, final>>

\* lines 118-125: self.running = True, sample_count = 0, last_packet_id = 0
SetRunning ==
  /\ pc = "set_running"
  /\ running' = TRUE
  /\ sample_count' = 0
  /\ last_packet_id' = 0
  /\ pc' = "loop_test"
  /\ UNCHANGED <<bufVars, pushed, query, logVars, clock, logHist, memVars,
                 enable_logging, suspension_data, accepted, sig, final>>

\* line 128: while self.running
LoopTest ==
  /\ pc = "loop_test"
  /\ pc' = IF running THEN "read" ELSE "finally"
  /\ UNCHANGED <<bufVars, pushed, query, logVars, clock, logHist, memVars,
                 running, enable_logging, suspension_data, sample_count,
                 last_packet_id, accepted, sig, final>>

\* line 132: suspension_data = self.ac_memory.read_suspension_data()
ReadFrame(frame, io_fails) ==
  /\ pc = "read"
  /\ suspension_data' = read_suspension_data(physics_mmap, is_connected, frame,
                                             clock, io_fails)
  /\ pc' = "process"
  /\ UNCHANGED <<bufVars, pushed, query, logVars, clock, logHist, memVars,
                 running, enable_logging, sample_count, last_packet_id,
                 accepted, sig, final>>

\* whether the producer still issues frame: it stops issuing new frames once
\* limit samples were accepted
Issues(frame, io_fails, limit) ==
  Accepts(read_suspension_data(physics_mmap, is_connected, frame, clock,
                               io_fails), last_packet_id)
    => sample_count < limit

\* line 132, with a producer that issues at most MaxSamples new frames
Read(frame, io_fails) ==
  /\ Issues(frame, io_fails, MaxSamples)
  /\ ReadFrame(frame, io_fails)

\* lines 134-140 with last_packet_id reset to 0 by a failed read
Process_forgets_last ==
  /\ pc = "process"
  /\ IF Accepts(suspension_data, last_packet_id)
     THEN /\ LET r == add_to_buffer(data_buffer, buffer_index, suspension_data[1])
             IN /\ data_buffer' = r.data_buffer
                /\ buffer_index' = r.buffer_index
          /\ pushed' = Append(pushed, suspension_data[1])
          /\ pc' = "log"
          /\ UNCHANGED last_packet_id
     ELSE /\ UNCHANGED <<data_buffer, buffer_index, pushed>>
          /\ pc' = "timing"
          /\ last_packet_id' = IF suspension_data = None THEN 0
                               ELSE last_packet_id
  /\ UNCHANGED <<buffer_size, in_flight, query, logVars, clock, logHist,
                 memVars, running, enable_logging, suspension_data,
                 sample_count, accepted, sig, final>>

\* lines 134-140: a new frame goes into the buffer; a missing, repeated or
\* non-positive one is skipped
Process ==
  /\ pc = "process"
  /\ IF Accepts(suspension_data, last_packet_id)
     THEN /\ LET r == add_to_buffer(data_buffer, buffer_index, suspension_data[1])
             IN /\ data_buffer' = r.data_buffer
                /\ buffer_index' = r.buffer_index
          /\ pushed' = Append(pushed, suspension_data[1])
          /\ pc' = "log"
     ELSE /\ UNCHANGED <<data_buffer, buffer_index, pushed>>
          /\ pc' = "timing"
  /\ UNCHANGED <<buffer_size, in_flight, query, logVars, clock, logHist,
                 memVars, running, enable_logging, suspension_data,
                 sample_count, last_packet_id, accepted, sig, final>>

\* lines 143-144: self.logger.log_data(suspension_data) when logging is enabled
Log ==
  /\ pc = "log"
  /\ IF enable_logging
     THEN SetLogger(log_data(Logger, suspension_data).logger)
     ELSE UNCHANGED <<current_session_file, session_data, session_start_time>>
  /\ pc' = "count"
  /\ UNCHANGED <<bufVars, pushed, query, files, clock, logHist, memVars,
                 running, enable_logging, suspension_data, sample_count,
                 last_packet_id, accepted, sig, final>>

\* lines 146-147 without the assignment of last_packet_id
Count_keeps_last ==
  /\ pc = "count"
  /\ sample_count' = sample_count + 1
  /\ UNCHANGED last_packet_id
  /\ accepted' = Append(accepted, suspension_data[1])
  /\ pc' = "timing"
  /\ UNCHANGED <<bufVars, pushed, query, logVars, clock, logHist, memVars,
                 running, enable_logging, suspension_data, sig, final>>

\* lines 146-147: sample_count += 1; last_packet_id = current_packet_id
Count ==
  /\ pc = "count"
  /\ sample_count' = sample_count + 1
  /\ last_packet_id' = PyGet(suspension_data[1], "packet_id", 0)
  /\ accepted' = Append(accepted, suspension_data[1])
  /\ pc' = "timing"
  /\ UNCHANGED <<bufVars, pushed, query, logVars, clock, logHist, memVars,
                 running, enable_logging, suspension_data, sig, final>>

\* lines 170-177: the tick ends, sleeping for the rest of the interval; the
\* clock may advance meanwhile
Timing(elapsed) ==
  /\ pc = "timing"
  /\ clock + elapsed <= MaxLoopClock
  /\ clock' = clock + elapsed
  /\ pc' = "loop_test"
  /\ UNCHANGED <<bufVars, pushed, query, logVars, logHist, memVars,
                 running, enable_logging, suspension_data, sample_count,
                 last_packet_id, accepted, sig, final>>

\* lines 179-182: an exception raised by a console write of the tick (lines
\* 155-167, 177) is caught and leads to the finally block
Raise ==
  /\ pc = "timing"
  /\ pc' = "finally"
  /\ UNCHANGED <<bufVars, pushed, query, logVars, clock, logHist, memVars,
                 running, enable_logging, suspension_data, sample_count,
                 last_packet_id, accepted, sig, final>>

\* lines 184-195: finally: self.stop(), then start_extraction returns
Finally(io) ==
  /\ pc = "finally"
  /\ stop(io)
  /\ final' = StopSaved(io)
  /\ pc' = "done"
  /\ UNCHANGED <<bufVars, pushed, query, current_session_file, session_data,
                 session_start_time, clock, logHist, enable_logging,
                 suspension_data, sample_count, last_packet_id, accepted, sig>>

\* the steps of the thread that runs start_extraction
MainThread ==
  \/ StartExtraction
  \/ \E ok \in BOOLEAN : Connect(ok)
  \/ ConnectFlag
  \/ \E frame \in Frames, io_fails \in BOOLEAN : IsAcRunning(frame, io_fails)
  \/ Begin
  \/ SetRunning
  \/ LoopTest
  \/ \E frame \in Frames, io_fails \in BOOLEAN : Read(frame, io_fails)
  \/ Process
  \/ Log
  \/ Count
  \/ \E elapsed \in 0..1 : Timing(elapsed)
  \/ Raise
  \/ \E io \in IoOutcomes : Finally(io)

(***************************************************************************)
(* Specification of the circular buffer on its own: any capacity, any      *)
(* sequence of add_to_buffer calls, get_latest_data(count) for any count.  *)
(***************************************************************************)
BufferRecords == {SuspensionData(0, <<0, 0, 0, 0>>, 0, p) : p \in 1..2}

InitBuffer ==
  /\ buffer_size \in 1..MaxCapacity
  /\ InitBufferFields
  /\ InitLogger
  /\ InitMemory
  /\ InitExtractor
  /\ enable_logging = FALSE

AddToBuffer(data) ==
  /\ Len(pushed) < MaxPushes
  /\ LET r == add_to_buffer(data_buffer, buffer_index, data)
     IN /\ data_buffer' = r.data_buffer
        /\ buffer_index' = r.buffer_index
  /\ pushed' = Append(pushed, data)
  /\ query' = None
  /\ UNCHANGED <<buffer_size, in_flight, logVars, clock, logHist, extVars>>

GetLatestData(count) ==
  /\ query' = Some([count |-> count,
                    result |-> get_latest_data(data_buffer, buffer_index, count),
                    is_buffer |-> returns_buffer(data_buffer, count),
                    mutations |-> 0])
  /\ UNCHANGED <<buffer_size, data_buffer, buffer_index, in_flight, pushed>>
  /\ UNCHANGED <<logVars, clock, logHist, extVars>>

NextBuffer ==
  \/ \E data \in BufferRecords : AddToBuffer(data)
  \/ \E count \in (0 - MaxCount)..MaxCount : GetLatestData(count)

SpecBuffer == InitBuffer /\ [][NextBuffer]_vars

\* the last n elements of s (all of s when n >= Len(s), none when n <= 0)
LastN(s, n) == SubSeq(s, Len(s) - Min(Max(n, 0), Len(s)) + 1, Len(s))

\* C1: after M >= C pushes r1..rM on an empty buffer of capacity C,
\* get_latest_data(C) returns exactly r(M-C+1)..rM, oldest first.
C1_LatestFullWindow ==
  (query # None /\ Len(pushed) >= buffer_size /\ query[1].count = buffer_size)
    => query[1].result = LastN(pushed, buffer_size)

\* C1 witness: the window is read while the write cursor is mid-buffer, after
\* old records were overwritten, and the window holds two different records.
C1_Witness ==
  /\ query # None
  /\ query[1].count = buffer_size
  /\ Len(pushed) > buffer_size
  /\ buffer_index # 0
  /\ \E i, j \in 1..Len(query[1].result) : query[1].result[i] # query[1].result[j]

\* C6: for n greater than the number of records pushed, get_latest_data(n)
\* returns the records the buffer still holds, each once, oldest first, and in
\* every state the result has at most min(n, C, number pushed) elements.
C6_LatestClamped ==
  query # None =>
    /\ query[1].count > Len(pushed)
         => query[1].result = LastN(pushed, buffer_size)
    /\ Len(query[1].result)
         <= Max(0, Min(query[1].count, Min(buffer_size, Len(pushed))))

\* C7: for every buffer state and every n <= 0, get_latest_data(n) returns an
\* empty sequence.
C7_LatestNonPositiveEmpty ==
  (query # None /\ query[1].count <= 0) => query[1].result = <<>>

(***************************************************************************)
(* Specification of the circular buffer read by an observer thread while   *)
(* the sampling thread pushes: the observer's get_latest_data call runs    *)
(* between any two statements of add_to_buffer.                            *)
(***************************************************************************)
\* add_to_buffer, lines 81-85: the append, or the write of the slot
PushWrite(data) ==
  /\ in_flight = None
  /\ Len(pushed) < MaxPushes
  /\ data_buffer' = add_to_buffer(data_buffer, buffer_index, data).data_buffer
  /\ IF Len(data_buffer) < buffer_size
     THEN /\ pushed' = Append(pushed, data)
          /\ in_flight' = None
     ELSE /\ in_flight' = Some(data)
          /\ UNCHANGED pushed
  /\ query' = None
  /\ UNCHANGED <<buffer_size, buffer_index, logVars, clock, logHist, extVars>>

\* add_to_buffer, line 86: the cursor advances and the call returns
PushAdvance ==
  /\ in_flight # None
  /\ buffer_index' = add_to_buffer(data_buffer, buffer_index,
                                   in_flight[1]).buffer_index
  /\ pushed' = Append(pushed, in_flight[1])
  /\ in_flight' = None
  /\ query' = None
  /\ UNCHANGED <<buffer_size, data_buffer, logVars, clock, logHist, extVars>>

NextObserver ==
  \/ \E data \in BufferRecords : PushWrite(data)
  \/ PushAdvance
  \/ \E count \in (0 - MaxCount)..MaxCount : GetLatestData(count)

SpecObserver == InitBuffer /\ [][NextObserver]_vars

\* C17: get_latest_data(n), 1 <= n <= C, called between the slot write and
\* the cursor advance of a push returns the window of before that push or the
\* window of after it.
C17_ObserverSeesWholeWindow ==
  (query # None /\ query[1].count \in 1..buffer_size)
    => \/ query[1].result = LastN(pushed, query[1].count)
       \/ /\ in_flight # None
          /\ query[1].result
               = LastN(Append(pushed, in_flight[1]), query[1].count)

(***************************************************************************)
(* Specification of the circular buffer with a caller that mutates the     *)
(* list get_latest_data returned: a Python list is an object, and a        *)
(* mutation of it is seen through every reference to it.                   *)
(***************************************************************************)
\* the caller's list.append(x), list.pop() and list[0] = x
ListMutations ==
  {[op |-> "pop"]}
    \cup {[op |-> o, x |-> d] : o \in {"append", "replace"}, d \in BufferRecords}

Mutated(lst, m) ==
  CASE m.op = "append" -> Append(lst, m.x)
    [] m.op = "pop" -> SubSeq(lst, 1, Len(lst) - 1)
    [] OTHER -> [lst EXCEPT ![1] = m.x]

\* the caller mutates the list it holds; when that list is self.data_buffer
\* the buffer is mutated with it
MutateResult(m) ==
  /\ query # None
  /\ query[1].mutations < MaxMutations
  /\ m.op \in {"pop", "replace"} => query[1].result # <<>>
  /\ query' = Some([query[1] EXCEPT !.result = Mutated(@, m),
                                    !.mutations = @ + 1])
  /\ data_buffer' = IF query[1].is_buffer THEN Mutated(data_buffer, m)
                    ELSE data_buffer
  /\ UNCHANGED <<buffer_size, buffer_index, in_flight, pushed>>
  /\ UNCHANGED <<logVars, clock, logHist, extVars>>

NextMutate ==
  \/ \E data \in BufferRecords : AddToBuffer(data)
  \/ \E count \in (0 - MaxCount)..MaxCount : GetLatestData(count)
  \/ \E m \in ListMutations : MutateResult(m)

SpecMutate == InitBuffer /\ [][NextMutate]_vars

\* C21: mutating the list returned by get_latest_data(n) (append, remove,
\* replace) changes neither the buffer's contents nor its length nor the
\* result of a later get_latest_data call.
C21_ResultIndependentOfBuffer ==
  [][(query # None /\ query' # None
      /\ query'[1].mutations = query[1].mutations + 1)
       => /\ data_buffer' = data_buffer
          /\ Len(data_buffer') = Len(data_buffer)
          /\ \A n \in (0 - MaxCount)..MaxCount :
               get_latest_data(data_buffer', buffer_index', n)
                 = get_latest_data(data_buffer, buffer_index, n)]_vars

(***************************************************************************)
(* Specification of the recorder on its own: any sequence of start_session, *)
(* log_data, save_session and get_session_stats calls, the clock advancing  *)
(* between them.                                                            *)
(***************************************************************************)
InitRecorder ==
  /\ buffer_size = 1
  /\ InitBufferFields
  /\ InitLogger
  /\ InitMemory
  /\ InitExtractor
  /\ enable_logging = TRUE

NextLogger ==
  \/ rt.sessions < MaxSessions /\ StartSession
  \/ /\ Len(session_data) < MaxLog
     /\ \E data \in LoggerInputs : LogData(data)
  \/ \E io \in IoOutcomes : SaveSession(io)
  \/ GetSessionStats
  \/ AdvanceClock

SpecLogger == InitRecorder /\ [][NextLogger]_vars

\* C8: immediately after a successful save_session the persisted file holds
\* the entries recorded since the most recent start_session, in recording
\* order and with the records' field values, and total_samples is their number.
EntryMatches(e, d) ==
  /\ e.timestamp = d.timestamp
  /\ e.suspension.front_left = d.front_left
  /\ e.suspension.front_right = d.front_right
  /\ e.suspension.rear_left = d.rear_left
  /\ e.suspension.rear_right = d.rear_right
  /\ e.context.speed_kmh = (IF "speed_kmh" \in DOMAIN d THEN d.speed_kmh ELSE 0)
  /\ e.context.packet_id = (IF "packet_id" \in DOMAIN d THEN d.packet_id ELSE 0)

FileHolds(doc, recs) ==
  /\ doc.state = "written"
  /\ Len(doc.data) = Len(recs)
  /\ \A i \in 1..Len(recs) : EntryMatches(doc.data[i], recs[i])
  /\ doc.session_metadata.total_samples = Len(recs)

C8_FlushRoundTrip ==
  (ret # None /\ ret[1].op = "save_session" /\ ret[1].value = "True")
    => FileHolds(files[current_session_file[1]], recorded)

\* C8 witness: a successful flush of a session holding two different entries
C8_Witness ==
  /\ ret # None /\ ret[1].op = "save_session" /\ ret[1].value = "True"
  /\ Len(recorded) = 2
  /\ recorded[1] # recorded[2]

\* C10: with no session open (start_session never called), recording a valid
\* record returns false and leaves the in-memory entry sequence unchanged.
C10_NoSessionRecordRefused ==
  [][(/\ current_session_file = None
      /\ ret' # None
      /\ ret'[1].op = "log_data"
      /\ ret'[1].data # None)
       => (ret'[1].value = "False" /\ session_data' = session_data)]_vars

\* C11: a save_session that fails with an I/O error returns False and leaves
\* the entries, the start time and the file target as they were; a later
\* successful save_session persists every entry of the session, those
\* recorded before the failure and those recorded after it.
C11_FailedSaveKeepsSession ==
  /\ [][(ret' # None /\ ret'[1].op = "save_session" /\ ret'[1].saved = "failed")
         => /\ ret'[1].value = "False"
            /\ UNCHANGED <<session_data, session_start_time,
                           current_session_file>>]_vars
  /\ [](( /\ ret # None /\ ret[1].op = "save_session" /\ ret[1].value = "True"
          /\ rt.failed_at > 0)
         => /\ Len(recorded) >= rt.failed_at
            /\ FileHolds(files[current_session_file[1]], recorded))

\* C11 witness: a save failed while one entry was held, a second entry was
\* recorded, and the save that followed succeeded
C11_Witness ==
  /\ ret # None /\ ret[1].op = "save_session" /\ ret[1].value = "True"
  /\ rt.failed_at = 1
  /\ Len(recorded) = 2

\* C13: get_session_stats returns None if and only if no session is open; for
\* an open session it returns the entry count, the elapsed time and the file
\* target, a started session with no entry yielding count 0 with its target.
C13_StatsIffSessionOpen ==
  (ret # None /\ ret[1].op = "get_session_stats")
    => /\ (ret[1].data = None) <=> (current_session_file = None)
       /\ ret[1].data # None
            => /\ ret[1].data[1].total_samples = Len(session_data)
               /\ ret[1].data[1].file_path = current_session_file
               /\ session_start_time # None
                    => ret[1].data[1].duration = clock - session_start_time[1]

\* C15: a session started by a start_session call has a file target different
\* from that of the session started before it, also when both are started
\* within the same clock second, so that saving it leaves the earlier
\* session's file alone.
C15_SessionsHaveOwnFiles ==
  [][(ret' # None /\ ret'[1].op = "start_session" /\ current_session_file # None)
       => current_session_file' # current_session_file]_vars

(***************************************************************************)
(* Specification of the auto-flushing record path: save_realtime called    *)
(* again and again with a valid record (or None), each flush succeeding or *)
(* failing.                                                                *)
(***************************************************************************)
RealtimeInputs == {None, Some(SuspensionData(0, <<45, 43, 38, 40>>, 120, 7))}

NextRealtime ==
  \/ rt.sessions < MaxSessions /\ StartSession
  \/ /\ rt.calls < MaxRealtimeCalls
     /\ \E data \in RealtimeInputs, io \in IoOutcomes : SaveRealtime(data, io)

SpecRealtime == InitRecorder /\ [][NextRealtime]_vars

\* C9: on a fresh session, N save_realtime calls with valid records have
\* triggered exactly floor(N / 100) automatic flushes (so the j-th flush comes
\* with the (j*100)-th call and no other call flushes), and every call
\* appended its entry whether or not a flush failed.
C9_AutoFlushEveryK ==
  rt.pure => /\ rt.flushes = rt.calls \div AutoSaveEvery
             /\ Len(session_data) = rt.calls

\* C9 witness: past the 200th call, two flushes attempted, one of them failed
C9_Witness ==
  /\ rt.pure
  /\ rt.calls > 2 * AutoSaveEvery
  /\ rt.flushes = 2
  /\ rt.failed >= 1

(***************************************************************************)
(* Specification of the program: one run of start_extraction on a freshly  *)
(* constructed extractor, with interrupt signals arriving at any point.    *)
(***************************************************************************)
Init ==
  /\ buffer_size \in 1..MaxLoopCapacity
  /\ InitBufferFields
  /\ InitLogger
  /\ InitMemory
  /\ InitExtractor
  /\ enable_logging \in BOOLEAN

Next ==
  \/ MainThread
  \/ \E io \in IoOutcomes : SignalHandler(io)

Spec == Init /\ [][Next]_vars

\* the thread running start_extraction keeps taking steps
FairSpec == Spec /\ WF_vars(MainThread)

\* the run has ended through the finally block and the system is back in Idle
Idle == pc = "done" /\ ~running /\ physics_mmap = None

\* C2: a successfully decoded frame is accepted if and only if its sequence
\* id is nonzero and differs from the last accepted id; a frame that is not
\* accepted adds nothing to the buffer or the session and is not counted.
C2_AcceptIffNewNonzero ==
  [][(pc = "process" /\ pc' # "process" /\ suspension_data # None)
       => LET id == suspension_data[1].packet_id
          IN IF id # 0 /\ id # last_packet_id
             THEN /\ pc' = "log"
                  /\ pushed' = Append(pushed, suspension_data[1])
             ELSE /\ pc' = "timing"
                  /\ UNCHANGED <<data_buffer, session_data, sample_count>>]_vars

\* C3: when a run with logging enabled has ended after at least one sample
\* was accepted and the final flush succeeded, the session file holds exactly
\* the accepted samples in acceptance order, total_samples is the accepted
\* counter, and the mapping is released.
C3_StopPersistsAccepted ==
  (pc = "done" /\ enable_logging /\ sample_count >= 1 /\ final = "ok")
    => /\ FileHolds(files[current_session_file[1]], accepted)
       /\ files[current_session_file[1]].session_metadata.total_samples
            = sample_count
       /\ Idle

\* C3 witness: the stop signal arrived during a tick, its flush saw one entry
\* fewer, and the sample of that tick is in the final file
C3_Witness ==
  /\ pc = "done" /\ enable_logging /\ final = "ok"
  /\ sig.sampling
  /\ sig.entries >= 1
  /\ sample_count = sig.entries + 1
  /\ Len(files[current_session_file[1]].data) = sample_count

\* C4: one signal delivered while start_extraction is in Connecting or in
\* Sampling leads to Idle; no second signal is needed for it.
C4_SignalLeadsToIdle ==
  (sig.count = 1 /\ (sig.connecting \/ sig.sampling))
    ~> (Idle \/ sig.count > 1)

\* C5: after a stop signal delivered in Sampling no new tick begins, and the
\* loop leaves Sampling.
C5_NoTickAfterSignal ==
  /\ [][sig.sampling => ~(pc = "loop_test" /\ pc' = "read")]_vars
  /\ (sig.sampling ~> pc \notin Sampling)

\* C5 witness: the signal arrived mid-tick, the tick completed by counting its
\* sample, and the loop has ended
C5_Witness ==
  /\ sig.sampling /\ sig.count = 1
  /\ enable_logging
  /\ pc = "done"
  /\ Len(session_data) = sig.entries + 1
  /\ sample_count = Len(session_data)

\* C12: whenever Connecting fails (connect() fails, or it succeeds and
\* is_ac_running() reports false) start_extraction returns False with no tick
\* executed, no session started, and the system in Idle: the mapping released
\* and is_connected false.
C12_ConnectFailureIsIdle ==
  [][(pc \in {"connect", "is_ac_running"} /\ pc' = "done")
       => /\ physics_mmap' = None
          /\ ~is_connected'
          /\ ~running'
          /\ current_session_file' = None
          /\ sample_count' = 0 /\ data_buffer' = <<>>]_vars

\* C14: disconnect() called in any state leaves the mapping released and
\* is_connected false, a second call changes nothing, and every read after it
\* returns no data; every stop() therefore leaves the source disconnected, and
\* a run stopped by the signal handler and again by the finally block ends in
\* Idle.
C14_DisconnectIdempotent ==
  /\ [][(sig' # sig \/ (pc = "finally" /\ pc' = "done"))
         => (physics_mmap' = None /\ ~is_connected')]_vars
  /\ [](LET d == disconnect(physics_mmap, is_connected)
        IN /\ d.physics_mmap = None /\ ~d.is_connected
           /\ disconnect(d.physics_mmap, d.is_connected) = d
           /\ \A frame \in Frames, io_fails \in BOOLEAN :
                read_suspension_data(d.physics_mmap, d.is_connected, frame,
                                     clock, io_fails) = None)
  /\ []((pc = "done" /\ sig.sampling) => (Idle /\ ~is_connected))

\* C14 witness: two signals during the run and the finally block, three
\* disconnect() calls in all, the first of them on a connected source
C14_Witness ==
  /\ pc = "done" /\ sig.sampling /\ sig.count = 2
  /\ sample_count >= 1
  /\ Idle /\ ~is_connected

\* C18: when from some point of Sampling on every read fails and no signal
\* arrives, the loop ends by itself and the system reaches Idle.
C18_MappingLossStopsLoop ==
  ( /\ [](sig.count = 0)
    /\ <>(pc \in Sampling)
    /\ <>[](pc = "process" => suspension_data = None) )
    => <>Idle

\* C19: a tick whose read yields no record changes neither the buffer and its
\* cursor, nor the session entries, nor the last accepted id, nor the counter;
\* the loop stays in Sampling and, while running, begins the next tick.
C19_FailedReadSkipsTick ==
  /\ [][(pc \in {"read", "process"} /\ pc' # pc /\ suspension_data' = None)
         => /\ pc' \in Sampling
            /\ UNCHANGED <<data_buffer, buffer_index, pushed, session_data,
                           last_packet_id, sample_count, accepted>>]_vars
  /\ [][(pc = "loop_test" /\ pc' # pc /\ suspension_data = None /\ running)
         => pc' = "read"]_vars

\* C19 witness: after a sample was accepted a read failed on the connected
\* source, and the loop is at the read of the next tick
C19_Witness ==
  /\ pc = "read" /\ running /\ is_connected /\ physics_mmap # None
  /\ suspension_data = None
  /\ sample_count >= 1 /\ last_packet_id # 0

\* the pattern of a frame's packetId, hi * 2^16 + lo, is not zero
NonzeroId(frame) == frame.packetId # <<0, 0>>

\* C20: the sequence id is an unsigned 32-bit number: for every packetId
\* pattern other than zero, 2^31 and above included, is_ac_running reports
\* true on a connected source, and the loop accepts a frame carrying it when
\* it differs from the last accepted id.
C20_UnsignedSequenceId ==
  [][\A frame \in Frames :
       (NonzeroId(frame) /\ is_connected /\ physics_mmap # None)
         => /\ IsAcRunning(frame, FALSE) => pc' = "begin"
            /\ (/\ ReadFrame(frame, FALSE)
                /\ Int32(frame.packetId[1], frame.packetId[2]) # last_packet_id)
                 => Accepts(suspension_data', last_packet_id)]_vars

\* the record pushed last, as the buffer holds it: the last element while the
\* buffer is not full, the slot before the write cursor once it is
NewestBuffered ==
  IF Len(data_buffer) < buffer_size THEN data_buffer[Len(data_buffer)]
  ELSE data_buffer[((buffer_index - 1) % buffer_size) + 1]

\* C22: in a run with logging enabled, at every tick boundary the accepted
\* counter equals the number of session entries and the number of pushes, the
\* buffer length is min(counter, C), the write cursor is 0 while the buffer is
\* not full and always in 0..C-1, and the last accepted id is the id of the
\* newest buffered record (0 when none was accepted).
C22_TickBoundaryInvariant ==
  (pc = "loop_test" /\ enable_logging)
    => /\ sample_count = Len(session_data)
       /\ sample_count = Len(pushed)
       /\ Len(data_buffer) = Min(sample_count, buffer_size)
       /\ Len(data_buffer) < buffer_size => buffer_index = 0
       /\ buffer_index \in 0..(buffer_size - 1)
       /\ last_packet_id = IF sample_count = 0 THEN 0
                           ELSE NewestBuffered.packet_id

\* C22 witness: a tick boundary after three accepted samples in a buffer of
\* capacity two, the cursor having advanced past the overwritten slot
C22_Witness ==
  /\ pc = "loop_test" /\ enable_logging /\ running
  /\ buffer_size = 2 /\ sample_count = 3
  /\ buffer_index = 1
  /\ last_packet_id # 0

(***************************************************************************)
(* Specification of a long uninterrupted run: logging enabled, the source  *)
(* connects, every read succeeds, the producer alternates two sequence ids *)
(* and no signal arrives; the run ends only if a console write raises.     *)
(***************************************************************************)
InitLongRun ==
  /\ buffer_size = 1
  /\ InitBufferFields
  /\ InitLogger
  /\ InitMemory
  /\ InitExtractor
  /\ enable_logging = TRUE

LongRunFrames == {f \in Frames : f.packetId \in {<<0, 1>>, <<0, 2>>}}

NextLongRun ==
  \/ StartExtraction
  \/ Connect(TRUE)
  \/ ConnectFlag
  \/ \E frame \in LongRunFrames : IsAcRunning(frame, FALSE)
  \/ Begin
  \/ SetRunning
  \/ LoopTest
  \/ \E frame \in LongRunFrames :
       Issues(frame, FALSE, MaxLongSamples) /\ ReadFrame(frame, FALSE)
  \/ Process
  \/ Log
  \/ Count
  \/ Timing(0)
  \/ Raise
  \/ Finally("ok")

SpecLongRun == InitLongRun /\ [][NextLongRun]_vars

\* entries in the file of the current session as last persisted
PersistedEntries ==
  IF current_session_file = None THEN 0
  ELSE LET doc == files[current_session_file[1]]
       IN IF doc.state = "written" THEN Len(doc.data) ELSE 0

\* C16: during Sampling with logging enabled, at every tick boundary the
\* entries held in memory exceed the entries of the persisted session file by
\* less than K = 100.
C16_LossBoundedByK ==
  (pc = "loop_test" /\ running /\ enable_logging)
    => Len(session_data) - PersistedEntries < AutoSaveEvery

====
